---------------------------- MODULE Spec2Model ----------------------------
(***************************************************************************)
(* The resource cache of rex-graphql (src/js/rex-graphql/Resource.js): a   *)
(* registry of resources, each with a key -> state cache and a set of      *)
(* change listeners; reads through unstable_useResource, settlements of    *)
(* the fetches those reads start, clearAllCaches, and perform.             *)
(*                                                                         *)
(* A fetch is named by its number in the order of invocation of            *)
(* config.fetch (1, 2, ...).  The promise a read derives from fetch f, the *)
(* value f resolves with and the error f rejects with are objects with an  *)
(* identity of their own; each is named by f as well, in the field         *)
(* (promise, value, error) that holds it.                                  *)
(***************************************************************************)
EXTENDS Integers, Sequences, FiniteSets, TLC

\* ------------------------------------------------------------------ bounds
MaxResources == 2
MaxFetches == 2
MaxClears == 2
MaxErrors == 2
MaxPathLen == 3
NumReaders == 2

Readers == 1..NumReaders

\* ------------------------------------------------------- params and keys
\* A params value: undefined, or an object whose properties are kept in
\* insertion order (name and value are both rendered as text).
Undefined == [defined |-> FALSE, props |-> <<>>]
EmptyObject == [defined |-> TRUE, props |-> <<>>]
ObjectA == [defined |-> TRUE, props |-> <<[name |-> "a", value |-> "1"]>>]
\* Two objects with the same properties, created in a different order.
ObjectAB == [defined |-> TRUE, props |-> <<[name |-> "a", value |-> "1"],
                                          [name |-> "b", value |-> "2"]>>]
ObjectBA == [defined |-> TRUE, props |-> <<[name |-> "b", value |-> "2"],
                                          [name |-> "a", value |-> "1"]>>]
BaseParams == {Undefined, EmptyObject, ObjectA}
ReorderedParams == {ObjectAB, ObjectBA}
Params == BaseParams \cup ReorderedParams

\* JSON.stringify of an object: its members in insertion order.
RECURSIVE Members(_, _)
Members(props, i) ==
  IF i > Len(props) THEN <<>>
  ELSE (IF i = 1 THEN <<>> ELSE <<",">>)
       \o <<"\"" , props[i].name, "\"", ":", props[i].value>>
       \o Members(props, i + 1)

JSONstringify(obj) == <<"{">> \o Members(obj.props, 1) \o <<"}">>

\* let key = JSON.stringify(params || {})
KeyOf(params) == JSONstringify(IF params.defined THEN params ELSE EmptyObject)

Keys == {KeyOf(p) : p \in Params}

\* ------------------------------------------------------------ cache maps
\* A Map<string, ResourceState>: a function whose domain is the keys set.
EmptyMap == [k \in {} |-> [type |-> "init"]]
MapSet(c, key, state) ==
  [k \in (DOMAIN c) \cup {key} |-> IF k = key THEN state ELSE c[k]]

\* cache.get(key), with the null result replaced by the init state
StateOf(c, key) == IF key \in DOMAIN c THEN c[key] ELSE [type |-> "init"]

\* --------------------------------------------------------------- policies
Unset == "unset"
CachePolicies == {Unset, "regular", "no-clear"}

VARIABLES
  registry,      \* resourceRegistry: sequence of configs, in definition order
  cache,         \* cache[i]: the cache Map of resource i
  subcriptions,  \* subcriptions[i]: the listeners of resource i (readers)
  fetches,       \* every invocation of a config.fetch, in order
  readers,       \* each reader (a hook instance of a component)
  performs,      \* every call of perform, in order
  lastRead,      \* what the most recent unstable_useResource call did
  clears,        \* number of clearAllCaches calls so far
  stale,         \* fetches that were started before some clearing of their cache
  atClear,       \* entries completed at the latest clearing and not read since
  rejected,      \* rejections with no invalidation since
  callerParams,  \* the params values the application's components pass
  transport,     \* what fetchGraphQL answered to each fetch of a query resource
  synIn,         \* the arguments of a call of buildQueryAST
  synOut,        \* what that call returned or threw
  box            \* box[l]: the ref of reader l in unstable_useResourceLocally

vars == <<registry, cache, subcriptions, fetches, readers, performs, lastRead,
          clears, stale, atClear, rejected, callerParams, transport, synIn,
          synOut, box>>

\* The variables the resource cache's operations of Next leave alone.
others == <<callerParams, transport, synIn, synOut, box>>

NoSynthesis == [called |-> FALSE]
NoAnswer == [fetch |-> 0]
noValueSentinel == [full |-> FALSE, data |-> 0, key |-> <<>>]

NoRead == [res |-> 0]
Unmounted == [res |-> 0, pos |-> "none", epoch |-> 1]

Resources == DOMAIN registry
IsCleared(config) == config.cachePolicy # "no-clear"

CacheInit ==
  /\ registry = <<>>
  /\ cache = <<>>
  /\ subcriptions = <<>>
  /\ fetches = <<>>
  /\ readers = [l \in Readers |-> Unmounted]
  /\ performs = <<>>
  /\ lastRead = NoRead
  /\ clears = 0
  /\ stale = {}
  /\ atClear = {}
  /\ rejected = {}
  /\ transport = NoAnswer
  /\ box = [l \in Readers |-> noValueSentinel]

Init ==
  /\ CacheInit
  /\ callerParams = BaseParams
  /\ synIn = NoSynthesis
  /\ synOut = NoSynthesis


\* ------------------------------------------------------------- the code
\* define(config): a new resource with an empty cache and no listener,
\* pushed on the registry.
define(reg, c, subs, config) ==
  [registry |-> Append(reg, config),
   cache |-> Append(c, EmptyMap),
   subcriptions |-> Append(subs, {})]

\* unstable_useResource_impl without the "in-progress" case: a read of a key
\* in flight starts a fetch as a read of an init key does.
unstable_useResource_impl_noDedup(c, key, next) ==
  LET state == StateOf(c, key)
  IN  CASE state.type \in {"init", "in-progress"} ->
             [cache |-> MapSet(c, key, [type |-> "in-progress", promise |-> next]),
              fetched |-> TRUE, kind |-> "promise", payload |-> next]
        [] state.type = "completed" ->
             [cache |-> c, fetched |-> FALSE,
              kind |-> "value", payload |-> state.value]
        [] state.type = "error" ->
             [cache |-> c, fetched |-> FALSE,
              kind |-> "error", payload |-> state.error]

\* unstable_useResource_impl revalidating: a read of a completed key returns
\* the value and starts a fetch for it again.
unstable_useResource_impl_revalidate(c, key, next) ==
  LET state == StateOf(c, key)
  IN  CASE state.type = "init" ->
             [cache |-> MapSet(c, key, [type |-> "in-progress", promise |-> next]),
              fetched |-> TRUE, kind |-> "promise", payload |-> next]
        [] state.type = "in-progress" ->
             [cache |-> c, fetched |-> FALSE,
              kind |-> "promise", payload |-> state.promise]
        [] state.type = "completed" ->
             [cache |-> MapSet(c, key, [type |-> "in-progress", promise |-> next]),
              fetched |-> TRUE, kind |-> "value", payload |-> state.value]
        [] state.type = "error" ->
             [cache |-> c, fetched |-> FALSE,
              kind |-> "error", payload |-> state.error]

\* The body of unstable_useResource_impl up to the hooks: what the read does
\* to the cache Map, whether it invokes config.fetch (the invocation is
\* numbered next), and what it returns or throws.
unstable_useResource_impl(c, key, next) ==
  LET state == StateOf(c, key)
  IN  CASE state.type = "init" ->
             [cache |-> MapSet(c, key, [type |-> "in-progress", promise |-> next]),
              fetched |-> TRUE, kind |-> "promise", payload |-> next]
        [] state.type = "in-progress" ->
             [cache |-> c, fetched |-> FALSE,
              kind |-> "promise", payload |-> state.promise]
        [] state.type = "completed" ->
             [cache |-> c, fetched |-> FALSE,
              kind |-> "value", payload |-> state.value]
        [] state.type = "error" ->
             [cache |-> c, fetched |-> FALSE,
              kind |-> "error", payload |-> state.error]

\* The fulfilment callback of a fetch that was cancelled: it records nothing.
onFulfilled_cancelled(c, key, value) == c

\* The two callbacks a read attaches to the fetch it starts.
onFulfilled(c, key, value) == MapSet(c, key, [type |-> "completed", value |-> value])
onRejected(c, key, error) == MapSet(c, key, [type |-> "error", error |-> error])

\* refetch = () => setEpoch(epoch => epoch + 1), called for each listener of
\* the set.
Notify(rdrs, listeners) ==
  [l \in DOMAIN rdrs |->
     IF l \in listeners THEN [rdrs[l] EXCEPT !.epoch = @ + 1] ELSE rdrs[l]]

\* The loop of clearAllCaches over the registry, from resource i on.
RECURSIVE clearLoop(_, _, _, _)
clearLoop(reg, subs, i, st) ==
  IF i > Len(reg) THEN st
  ELSE IF reg[i].cachePolicy = "no-clear" THEN clearLoop(reg, subs, i + 1, st)
  ELSE clearLoop(reg, subs, i + 1,
                 [cache |-> [st.cache EXCEPT ![i] = EmptyMap],
                  readers |-> Notify(st.readers, subs[i])])

\* clearAllCaches with break in the place of continue: the loop ends at the
\* first "no-clear" resource.
RECURSIVE clearLoop_break(_, _, _, _)
clearLoop_break(reg, subs, i, st) ==
  IF i > Len(reg) THEN st
  ELSE IF reg[i].cachePolicy = "no-clear" THEN st
  ELSE clearLoop_break(reg, subs, i + 1,
                       [cache |-> [st.cache EXCEPT ![i] = EmptyMap],
                        readers |-> Notify(st.readers, subs[i])])

clearAllCaches_break(reg, c, subs, rdrs) ==
  clearLoop_break(reg, subs, 1, [cache |-> c, readers |-> rdrs])

\* clearAllCaches without unstable_batchedUpdates: each refetch() renders its
\* reader at once, inside the loop, and the render reads the resource that
\* was just cleared.
RECURSIVE clearLoop_unbatched(_, _, _, _)
clearLoop_unbatched(reg, subs, i, st) ==
  IF i > Len(reg) THEN st
  ELSE IF reg[i].cachePolicy = "no-clear" THEN clearLoop_unbatched(reg, subs, i + 1, st)
  ELSE clearLoop_unbatched(reg, subs, i + 1,
         [cache |-> [st.cache EXCEPT ![i] =
                       IF subs[i] = {} THEN EmptyMap
                       ELSE unstable_useResource_impl(EmptyMap, KeyOf(Undefined), 0).cache],
          readers |-> Notify(st.readers, subs[i])])

clearAllCaches_unbatched(reg, c, subs, rdrs) ==
  clearLoop_unbatched(reg, subs, 1, [cache |-> c, readers |-> rdrs])

clearAllCaches(reg, c, subs, rdrs) ==
  clearLoop(reg, subs, 1, [cache |-> c, readers |-> rdrs])

\* fetch going through the cache: config.fetch is invoked only for a key
\* the cache has no entry for, and the promise is kept under the key.
fetch_cached(c, key, next) ==
  IF key \in DOMAIN c
  THEN [cache |-> c, invoked |-> FALSE, promise |-> c[key].promise]
  ELSE [cache |-> MapSet(c, key, [type |-> "in-progress", promise |-> next]),
        invoked |-> TRUE, promise |-> next]

\* fetch(resource, params): computes the key and invokes config.fetch.
fetch(c, key, next) == [cache |-> c, invoked |-> TRUE, promise |-> next]

\* perform's .then(data => { clearAllCaches(); return data; }): what the
\* settlement of the mutation's fetch (ok: fulfilled, else rejected, with
\* the outcome object named by payload) does, and how the promise perform
\* returned ends.
\* perform without the call of clearAllCaches.
performThen_noClear(reg, c, subs, rdrs, ok, payload) ==
  [cache |-> c, readers |-> rdrs, cleared |-> FALSE,
   promise |-> IF ok THEN "resolved" ELSE "rejected", result |-> payload]

\* perform clearing in .finally: on success and on failure alike.
performThen_finally(reg, c, subs, rdrs, ok, payload) ==
  LET out == clearAllCaches(reg, c, subs, rdrs)
  IN  [cache |-> out.cache, readers |-> out.readers, cleared |-> TRUE,
       promise |-> IF ok THEN "resolved" ELSE "rejected", result |-> payload]

performThen(reg, c, subs, rdrs, ok, payload) ==
  IF ok
  THEN LET out == clearAllCaches(reg, c, subs, rdrs)
       IN  [cache |-> out.cache, readers |-> out.readers, cleared |-> TRUE,
            promise |-> "resolved", result |-> payload]
  ELSE [cache |-> c, readers |-> rdrs, cleared |-> FALSE,
        promise |-> "rejected", result |-> payload]

\* ---------------------------------------------------------- bookkeeping
PendingPerforms == {i \in DOMAIN performs : performs[i].promise = "pending"}
ClearBudget == clears + Cardinality(PendingPerforms) < MaxClears

\* The completed entries of the caches c: <<resource, key, value>>.
Completed(c) ==
  {<<x[1], x[2], c[x[1]][x[2]].value>> :
     x \in {y \in (DOMAIN c) \X Keys :
              /\ y[2] \in DOMAIN c[y[1]]
              /\ c[y[1]][y[2]].type = "completed"}}

\* What one call of clearAllCaches adds to the history variables.
NoteClear ==
  /\ clears' = clears + 1
  /\ stale' = stale \cup {f \in DOMAIN fetches :
                            /\ fetches[f].by = "read"
                            /\ IsCleared(registry[fetches[f].res])}
  /\ atClear' = Completed(cache)
  /\ rejected' = {x \in rejected : ~IsCleared(registry[x[1]])}

\* --------------------------------------------------------------- actions
\* define / defineQuery with any cache policy.
DefineResource ==
  \E policy \in CachePolicies :
    /\ Len(registry) < MaxResources
    /\ LET out == define(registry, cache, subcriptions,
                         [cachePolicy |-> policy, mutation |-> FALSE])
       IN  /\ registry' = out.registry
           /\ cache' = out.cache
           /\ subcriptions' = out.subcriptions
    /\ UNCHANGED others
    /\ UNCHANGED <<fetches, readers, performs, lastRead, clears, stale,
                   atClear, rejected>>

\* defineMutation: defineQuery without a cachePolicy.
DefineMutation ==
  /\ Len(registry) < MaxResources
  /\ LET out == define(registry, cache, subcriptions,
                       [cachePolicy |-> Unset, mutation |-> TRUE])
     IN  /\ registry' = out.registry
         /\ cache' = out.cache
         /\ subcriptions' = out.subcriptions
  /\ UNCHANGED others
  /\ UNCHANGED <<fetches, readers, performs, lastRead, clears, stale,
                 atClear, rejected>>

\* A render of reader l calls unstable_useResource(resource r, params).  A
\* Mutation is an opaque type that only perform accepts, so r is no mutation.
\* A reader that has rendered keeps reading the resource it rendered with.
Read ==
  \E l \in Readers, r \in Resources, params \in callerParams :
    /\ ~registry[r].mutation
    /\ readers[l].pos = "none" \/ readers[l].res = r
    /\ LET key == KeyOf(params)
           next == Len(fetches) + 1
           out == unstable_useResource_impl(cache[r], key, next)
           before == {x \in atClear : x[1] = r /\ x[2] = key}
       IN  /\ out.fetched => Len(fetches) < MaxFetches
           /\ cache' = [cache EXCEPT ![r] = out.cache]
           /\ fetches' = IF out.fetched
                         THEN Append(fetches, [res |-> r, key |-> key,
                                               by |-> "read", status |-> "pending"])
                         ELSE fetches
           /\ readers' = IF out.kind = "value" /\ readers[l].pos = "none"
                         THEN [readers EXCEPT ![l] =
                                 [res |-> r, pos |-> "rendered", epoch |-> 1]]
                         ELSE readers
           /\ lastRead' = [res |-> r, key |-> key,
                           was |-> StateOf(cache[r], key),
                           kind |-> out.kind,
                           payload |-> out.payload, fetched |-> out.fetched,
                           cacheKept |-> (out.cache = cache[r]),
                           staleResult |-> (out.kind # "promise" /\ out.payload \in stale),
                           prior |-> {x[3] : x \in before},
                           expect |-> {x[3] : x \in {y \in rejected :
                                                       y[1] = r /\ y[2] = key}}]
           /\ atClear' = atClear \ before
    /\ UNCHANGED others
    /\ UNCHANGED <<registry, subcriptions, performs, clears, stale, rejected>>

\* The effect of a reader that rendered for the first time: it subscribes.
Effect ==
  \E l \in Readers :
    /\ readers[l].pos = "rendered"
    /\ subcriptions' = [subcriptions EXCEPT ![readers[l].res] = @ \cup {l}]
    /\ readers' = [readers EXCEPT ![l].pos = "subscribed"]
    /\ UNCHANGED others
    /\ UNCHANGED <<registry, cache, fetches, performs, lastRead, clears, stale,
                   atClear, rejected>>

\* The effect's cleanup, when the reader's component unmounts.
Unmount ==
  \E l \in Readers :
    /\ readers[l].pos = "subscribed"
    /\ subcriptions' = [subcriptions EXCEPT ![readers[l].res] = @ \ {l}]
    /\ readers' = [readers EXCEPT ![l] = Unmounted]
    /\ UNCHANGED others
    /\ UNCHANGED <<registry, cache, fetches, performs, lastRead, clears, stale,
                   atClear, rejected>>

\* The fetch f a read started settles: one of the two callbacks runs.
SettleFetch ==
  \E f \in DOMAIN fetches, ok \in BOOLEAN :
    /\ fetches[f].by = "read"
    /\ fetches[f].status = "pending"
    /\ LET r == fetches[f].res
           key == fetches[f].key
       IN  /\ cache' = [cache EXCEPT ![r] =
                          IF ok THEN onFulfilled(@, key, f) ELSE onRejected(@, key, f)]
           /\ rejected' = IF ok THEN rejected ELSE rejected \cup {<<r, key, f>>}
    /\ fetches' = [fetches EXCEPT ![f].status = "settled"]
    /\ UNCHANGED others
    /\ UNCHANGED <<registry, subcriptions, readers, performs, lastRead, clears,
                   stale, atClear>>

\* A call of clearAllCaches from the application.
ClearAllCaches ==
  /\ ClearBudget
  /\ LET out == clearAllCaches(registry, cache, subcriptions, readers)
     IN  /\ cache' = out.cache
         /\ readers' = out.readers
  /\ NoteClear
  /\ UNCHANGED others
  /\ UNCHANGED <<registry, subcriptions, fetches, performs, lastRead>>

\* A call of perform(mutation m, params): the mutation's fetch is invoked.
Perform ==
  \E m \in Resources, params \in callerParams :
    /\ registry[m].mutation
    /\ Len(fetches) < MaxFetches
    /\ ClearBudget
    /\ LET key == KeyOf(params)
           out == fetch(cache[m], key, Len(fetches) + 1)
       IN  /\ cache' = [cache EXCEPT ![m] = out.cache]
           /\ fetches' = IF out.invoked
                         THEN Append(fetches, [res |-> m, key |-> key,
                                               by |-> "perform", status |-> "pending"])
                         ELSE fetches
           /\ performs' = Append(performs,
                                 [mutation |-> m, key |-> key, fetch |-> out.promise,
                                  promise |-> "pending", result |-> 0,
                                  snap |-> {}])
    /\ UNCHANGED others
    /\ UNCHANGED <<registry, subcriptions, readers, lastRead, clears, stale,
                   atClear, rejected>>

\* The fetch of perform call i settles and perform's callback runs.
PerformSettle ==
  \E i \in DOMAIN performs, ok \in BOOLEAN :
    /\ performs[i].promise = "pending"
    /\ LET f == performs[i].fetch
           out == performThen(registry, cache, subcriptions, readers, ok, f)
       IN  /\ cache' = out.cache
           /\ readers' = out.readers
           /\ fetches' = [fetches EXCEPT ![f].status = "settled"]
           /\ performs' = [performs EXCEPT
                             ![i].promise = out.promise,
                             ![i].result = out.result,
                             ![i].snap = {x \in Completed(cache) :
                                            ok /\ IsCleared(registry[x[1]])}]
           /\ IF out.cleared THEN NoteClear
              ELSE UNCHANGED <<clears, stale, atClear, rejected>>
    /\ UNCHANGED others
    /\ UNCHANGED <<registry, subcriptions, lastRead>>

Next ==
  \/ DefineResource
  \/ DefineMutation
  \/ Read
  \/ Effect
  \/ Unmount
  \/ SettleFetch
  \/ ClearAllCaches
  \/ Perform
  \/ PerformSettle

Spec == Init /\ [][Next]_vars

\* ------------------------------------------------------------ defineQuery
Null == "null"

\* Sequences over S of length at most n.
SeqsUpTo(S, n) == UNION {[1 .. m -> S] : m \in 0 .. n}

\* What the promise of fetchGraphQL ends with: a failure of the transport,
\* or a response { data, errors } whose errors may be absent.
Responses ==
  {[failed |-> TRUE, data |-> Null, errorsGiven |-> FALSE, errors |-> <<>>]}
  \cup {[failed |-> FALSE, data |-> d, errorsGiven |-> TRUE, errors |-> e] :
          d \in {Null, "data"}, e \in SeqsUpTo({"e1", "e2"}, MaxErrors)}
  \cup {[failed |-> FALSE, data |-> d, errorsGiven |-> FALSE, errors |-> <<>>] :
          d \in {Null, "data"}}

\* errors.map(err => err.message).join("\n")
RECURSIVE JoinLines(_, _)
JoinLines(messages, i) ==
  IF i > Len(messages) THEN <<>>
  ELSE (IF i = 1 THEN <<>> ELSE <<"\n">>) \o <<messages[i]>>
       \o JoinLines(messages, i + 1)

\* The fetch of defineQuery that lets data win: it throws for the reported
\* errors only when the response carries no data.
defineQueryFetch_dataWins(config, resp) ==
  LET errors == IF resp.errorsGiven THEN resp.errors ELSE <<>>
  IN  IF resp.failed
      THEN [ok |-> FALSE, value |-> <<>>, name |-> "TransportError",
            message |-> <<"transport">>]
      ELSE IF Len(errors) > 0 /\ resp.data = Null
      THEN [ok |-> FALSE, value |-> <<>>, name |-> "Error",
            message |-> <<"Query:", config.query, "Errors:">>
                        \o JoinLines(errors, 1)]
      ELSE IF resp.data = Null
      THEN [ok |-> FALSE, value |-> <<>>, name |-> "Invariant Violation",
            message |-> <<"Data is null">>]
      ELSE [ok |-> TRUE, name |-> "", message |-> <<>>,
            value |-> IF config.map # Null THEN <<config.map, resp.data>>
                      ELSE <<resp.data>>]

\* The async fetch(variables) defineQuery gives the resource, applied to what
\* fetchGraphQL ended with.  The message is the template's text without its
\* white space: the two headings, the query and the joined messages.
defineQueryFetch(config, resp) ==
  LET errors == IF resp.errorsGiven THEN resp.errors ELSE <<>>
  IN  IF resp.failed
      THEN [ok |-> FALSE, value |-> <<>>, name |-> "TransportError",
            message |-> <<"transport">>]
      ELSE IF Len(errors) > 0
      THEN [ok |-> FALSE, value |-> <<>>, name |-> "Error",
            message |-> <<"Query:", config.query, "Errors:">>
                        \o JoinLines(errors, 1)]
      ELSE IF resp.data = Null
      THEN [ok |-> FALSE, value |-> <<>>, name |-> "Invariant Violation",
            message |-> <<"Data is null">>]
      ELSE [ok |-> TRUE, name |-> "", message |-> <<>>,
            value |-> IF config.map # Null THEN <<config.map, resp.data>>
                      ELSE <<resp.data>>]

QueryConfigs ==
  {[cachePolicy |-> policy, mutation |-> FALSE, query |-> "query Q", map |-> map] :
     policy \in CachePolicies, map \in {Null, "map"}}

\* The state after one call of defineQuery.
InitQuery ==
  /\ \E config \in QueryConfigs :
       LET out == define(<<>>, <<>>, <<>>, config)
       IN  /\ registry = out.registry
           /\ cache = out.cache
           /\ subcriptions = out.subcriptions
  /\ fetches = <<>>
  /\ readers = [l \in Readers |-> Unmounted]
  /\ performs = <<>>
  /\ lastRead = NoRead
  /\ clears = 0
  /\ stale = {}
  /\ atClear = {}
  /\ rejected = {}
  /\ transport = NoAnswer
  /\ box = [l \in Readers |-> noValueSentinel]
  /\ callerParams = BaseParams
  /\ synIn = NoSynthesis
  /\ synOut = NoSynthesis

\* fetchGraphQL answers fetch f of the query resource: the async fetch ends
\* and the callback of the read that started it runs.
QuerySettle ==
  \E f \in DOMAIN fetches, resp \in Responses :
    /\ fetches[f].by = "read"
    /\ fetches[f].status = "pending"
    /\ LET r == fetches[f].res
           key == fetches[f].key
           out == defineQueryFetch(registry[r], resp)
       IN  /\ cache' = [cache EXCEPT ![r] =
                          IF out.ok THEN onFulfilled(@, key, f)
                          ELSE onRejected(@, key, f)]
           /\ rejected' = IF out.ok THEN rejected
                          ELSE rejected \cup {<<r, key, f>>}
           /\ transport' = [fetch |-> f, res |-> r, key |-> key,
                            resp |-> resp, out |-> out]
    /\ fetches' = [fetches EXCEPT ![f].status = "settled"]
    /\ UNCHANGED <<registry, subcriptions, readers, performs, lastRead, clears,
                   stale, atClear, callerParams, synIn, synOut, box>>

NextQuery ==
  \/ Read
  \/ QuerySettle
  \/ ClearAllCaches

SpecQuery == InitQuery /\ [][NextQuery]_vars

\* The same program, with components that pass the same properties in two
\* orders.
InitReordered ==
  /\ CacheInit
  /\ callerParams = ReorderedParams
  /\ synIn = NoSynthesis
  /\ synOut = NoSynthesis

SpecReordered == InitReordered /\ [][Next]_vars

\* ------------------------------------------- unstable_useResourceLocally
\* unstable_useResourceLocally reading through the cache on every call, as
\* unstable_useResource does.
unstable_useResourceLocally_shared(c, key, next, current) ==
  LET out == unstable_useResource_impl(c, key, next)
  IN  [cache |-> out.cache, fetched |-> out.fetched, kind |-> out.kind,
       payload |-> out.payload,
       current |-> IF out.kind = "value"
                   THEN [full |-> TRUE, data |-> out.payload, key |-> key]
                   ELSE current]

\* unstable_useResourceLocally with box.current being current: doWork() when
\* the box holds the sentinel or another key, and the data of the box
\* otherwise.  doWork sets the box only when unstable_useResource_impl
\* returns; a throw leaves it.
unstable_useResourceLocally(c, key, next, current) ==
  IF ~current.full \/ current.key # key
  THEN LET out == unstable_useResource_impl(c, key, next)
       IN  [cache |-> out.cache, fetched |-> out.fetched, kind |-> out.kind,
            payload |-> out.payload,
            current |-> IF out.kind = "value"
                        THEN [full |-> TRUE, data |-> out.payload, key |-> key]
                        ELSE current]
  ELSE [cache |-> c, fetched |-> FALSE, kind |-> "value",
        payload |-> current.data, current |-> current]

\* A render of reader l calls unstable_useResourceLocally(resource r, params).
\* The hooks that subscribe are those of unstable_useResource_impl: the first
\* render in which doWork returns is the one whose effect is pending.
ReadLocally ==
  \E l \in Readers, r \in Resources, params \in callerParams :
    /\ ~registry[r].mutation
    /\ readers[l].pos = "none" \/ readers[l].res = r
    /\ LET key == KeyOf(params)
           next == Len(fetches) + 1
           out == unstable_useResourceLocally(cache[r], key, next, box[l])
           before == {x \in atClear : x[1] = r /\ x[2] = key}
       IN  /\ out.fetched => Len(fetches) < MaxFetches
           /\ cache' = [cache EXCEPT ![r] = out.cache]
           /\ box' = [box EXCEPT ![l] = out.current]
           /\ fetches' = IF out.fetched
                         THEN Append(fetches, [res |-> r, key |-> key,
                                               by |-> "read", status |-> "pending"])
                         ELSE fetches
           /\ readers' = IF out.kind = "value" /\ readers[l].pos = "none"
                         THEN [readers EXCEPT ![l] =
                                 [res |-> r, pos |-> "rendered", epoch |-> 1]]
                         ELSE readers
           /\ lastRead' = [res |-> r, key |-> key,
                           was |-> StateOf(cache[r], key),
                           kind |-> out.kind,
                           payload |-> out.payload, fetched |-> out.fetched,
                           cacheKept |-> (out.cache = cache[r]),
                           staleResult |-> (out.kind # "promise" /\ out.payload \in stale),
                           prior |-> {x[3] : x \in before},
                           expect |-> {x[3] : x \in {y \in rejected :
                                                       y[1] = r /\ y[2] = key}},
                           reader |-> l, box |-> box[l]]
           /\ atClear' = atClear \ before
    /\ UNCHANGED <<registry, subcriptions, performs, clears, stale, rejected,
                   callerParams, transport, synIn, synOut>>

\* The component of reader l unmounts: the effect's cleanup runs and the ref
\* of the instance goes with it.
UnmountLocally ==
  \E l \in Readers :
    /\ readers[l].pos = "subscribed"
    /\ subcriptions' = [subcriptions EXCEPT ![readers[l].res] = @ \ {l}]
    /\ readers' = [readers EXCEPT ![l] = Unmounted]
    /\ box' = [box EXCEPT ![l] = noValueSentinel]
    /\ UNCHANGED <<registry, cache, fetches, performs, lastRead, clears, stale,
                   atClear, rejected, callerParams, transport, synIn, synOut>>

\* The state after one call of define, with any cache policy.
InitLocal ==
  /\ \E policy \in CachePolicies :
       LET out == define(<<>>, <<>>, <<>>,
                         [cachePolicy |-> policy, mutation |-> FALSE])
       IN  /\ registry = out.registry
           /\ cache = out.cache
           /\ subcriptions = out.subcriptions
  /\ fetches = <<>>
  /\ readers = [l \in Readers |-> Unmounted]
  /\ performs = <<>>
  /\ lastRead = NoRead
  /\ clears = 0
  /\ stale = {}
  /\ atClear = {}
  /\ rejected = {}
  /\ transport = NoAnswer
  /\ box = [l \in Readers |-> noValueSentinel]
  /\ callerParams = BaseParams
  /\ synIn = NoSynthesis
  /\ synOut = NoSynthesis

NextLocal ==
  \/ ReadLocally
  \/ Effect
  \/ UnmountLocally
  \/ SettleFetch
  \/ ClearAllCaches

\* The program whose components read one resource with
\* unstable_useResourceLocally.
SpecLocal == InitLocal /\ [][NextLocal]_vars

\* ----------------------------------------------------- query synthesizer
\* Introspection type references, fields, input values and types.
Named(kind, name) == [kind |-> kind, name |-> name]
NonNullOf(ofType) == [kind |-> "NON_NULL", ofType |-> ofType]
ListOf(ofType) == [kind |-> "LIST", ofType |-> ofType]
InputValue(name, type) == [name |-> name, type |-> type]
IntroField(name, description, args, type) ==
  [name |-> name, description |-> description, args |-> args, type |-> type]
IntroType(kind, name, fields) == [kind |-> kind, name |-> name, fields |-> fields]

ScalarString == Named("SCALAR", "String")
ScalarInt == Named("SCALAR", "Int")

\* The schema synthesis runs against: a root with object, wrapped-object,
\* scalar, enum, interface and union fields, a connection of three hops to
\* Patient, and User, which refers to itself.
schema ==
  [queryType |-> [name |-> "Query"],
   types |-> <<
     IntroType("OBJECT", "Query", <<
       IntroField("patients", "All patients",
                  <<InputValue("search", ScalarString)>>,
                  NonNullOf(Named("OBJECT", "PatientConnection"))),
       IntroField("viewer", "Current user", <<>>, Named("OBJECT", "User")),
       IntroField("version", "Version", <<>>, ScalarString),
       IntroField("tags", "Tags", <<>>, NonNullOf(ListOf(NonNullOf(ScalarString)))),
       IntroField("status", "Status", <<>>, Named("ENUM", "Status")),
       IntroField("node", "Any node", <<InputValue("id", NonNullOf(ScalarString))>>,
                  Named("INTERFACE", "Node")),
       IntroField("search", "Search", <<>>,
                  ListOf(Named("UNION", "SearchResult")))>>),
     IntroType("OBJECT", "PatientConnection", <<
       IntroField("edges", "Edges",
                  <<InputValue("limit", ScalarInt)>>,
                  ListOf(Named("OBJECT", "PatientEdge"))),
       IntroField("name", "Connection name", <<>>, ScalarString)>>),
     IntroType("OBJECT", "PatientEdge", <<
       IntroField("node", "Patient of the edge", <<>>,
                  Named("OBJECT", "Patient")),
       IntroField("name", "Edge name", <<>>, ScalarString)>>),
     IntroType("OBJECT", "Patient", <<
       IntroField("email", "Email", <<>>, ScalarString),
       IntroField("id", "Identifier", <<>>, NonNullOf(ScalarString)),
       IntroField("display_name", "Display name",
                  <<InputValue("search", ScalarString),
                    InputValue("limit", NonNullOf(ScalarInt))>>, ScalarString),
       IntroField("age", "Age", <<>>, ScalarInt),
       IntroField("doctor", "Doctor", <<>>, Named("OBJECT", "User")),
       IntroField("phones", "Phones", <<>>, ListOf(ScalarString)),
       IntroField("status", "Patient status",
                  <<InputValue("at", ListOf(Named("ENUM", "Status")))>>,
                  Named("ENUM", "Status"))>>),
     IntroType("OBJECT", "User", <<
       IntroField("name", "User name", <<>>, ScalarString),
       IntroField("id", "User identifier", <<>>, NonNullOf(ScalarString)),
       IntroField("manager", "Manager",
                  <<InputValue("search", ScalarString)>>, Named("OBJECT", "User")),
       IntroField("status", "User status", <<>>,
                  NonNullOf(Named("ENUM", "Status")))>>),
     IntroType("ENUM", "Status", <<>>),
     IntroType("INTERFACE", "Node", <<>>),
     IntroType("UNION", "SearchResult", <<>>)>>]

\* The hop names paths are made of; "missing" is a field of no type.
HopNames ==
  {"patients", "edges", "node", "viewer", "manager", "version", "tags",
   "status", "search", "name", "missing"}

\* QueryFieldSpec { field, require? } and FieldSpec { title, require }.
Leaf(field) == [field |-> field, hasRequire |-> FALSE, require |-> <<>>]
Branch(field, require) == [field |-> field, hasRequire |-> TRUE, require |-> require]
FieldSpec(title, require) == [title |-> title, require |-> require]
Entry(key, value) == [key |-> key, value |-> value]

\* A JS object or Map as its entries in insertion order: set, has and get.
OrderedSet(m, key, value) ==
  IF \E i \in DOMAIN m : m[i].key = key
  THEN [i \in DOMAIN m |-> IF m[i].key = key THEN Entry(key, value) ELSE m[i]]
  ELSE Append(m, Entry(key, value))
OrderedHas(m, key) == \E i \in DOMAIN m : m[i].key = key
OrderedGet(m, key) == m[CHOOSE i \in DOMAIN m : m[i].key = key].value

\* The field configurations given to synthesis: none, an empty one, ones
\* that ask or do not ask for id, one naming a field Patient does not have,
\* and ones with nested require lists.
NoFieldSpecs == [given |-> FALSE, entries |-> <<>>]
Requested(entries) == [given |-> TRUE, entries |-> entries]
FieldSpecsRequested ==
  {NoFieldSpecs,
   Requested(<<>>),
   Requested(<<Entry("label", FieldSpec("Name", Leaf("display_name"))),
               Entry("mail", FieldSpec("Mail", Leaf("email")))>>),
   Requested(<<Entry("age", FieldSpec("Age", Leaf("age"))),
               Entry("key", FieldSpec("Key", Leaf("id")))>>),
   Requested(<<Entry("nick", FieldSpec("Nick", Leaf("nickname")))>>),
   Requested(<<Entry("doctor", FieldSpec("Doctor",
       Branch("doctor", <<Leaf("name"),
                          Branch("manager", <<Leaf("name")>>)>>)))>>),
   Requested(<<Entry("doctor", FieldSpec("Doctor",
       Branch("doctor", <<Leaf("salary")>>)))>>)}

SynInputs ==
  {[called |-> TRUE, path |-> path, fieldSpecsRequested |-> fsr] :
     path \in SeqsUpTo(HopNames, MaxPathLen), fsr \in FieldSpecsRequested}

\* What a call that threw leaves: the kind of the error and nothing else.
Thrown(kind) ==
  [threw |-> kind, selectionSet |-> <<>>, selections |-> <<>>,
   inputValues |-> <<>>, fieldSpecs |-> <<>>, description |-> Null]

\* typesMap: the last type of each name.
TypesMap(types) ==
  [name \in {types[i].name : i \in DOMAIN types} |->
     types[CHOOSE i \in DOMAIN types :
             /\ types[i].name = name
             /\ \A j \in DOMAIN types : types[j].name = name => j <= i]]

\* resolveType of resolveField: the type a reference names, if there is one.
\* found is FALSE where nextType stays undefined.
RECURSIVE resolveType(_, _)
resolveType(typesMap, typeRef) ==
  IF typeRef.kind \in {"NON_NULL", "LIST"}
  THEN resolveType(typesMap, typeRef.ofType)
  ELSE IF typeRef.kind \in {"ENUM", "UNION", "INTERFACE", "OBJECT"}
          /\ typeRef.name \in DOMAIN typesMap
  THEN [found |-> TRUE, type |-> typesMap[typeRef.name]]
  ELSE [found |-> FALSE, type |-> IntroType("", "", <<>>)]

NoField == IntroField("", Null, <<>>, Named("", ""))

resolveField(typesMap, type, fieldName) ==
  IF ~ \E i \in DOMAIN type.fields : type.fields[i].name = fieldName
  THEN [threw |-> "ConfigError", field |-> NoField, nextType |-> IntroType("", "", <<>>)]
  ELSE LET field == type.fields[CHOOSE i \in DOMAIN type.fields :
                      /\ type.fields[i].name = fieldName
                      /\ \A j \in DOMAIN type.fields :
                           type.fields[j].name = fieldName => i <= j]
           next == resolveType(typesMap, field.type)
       IN  IF ~next.found
           THEN [threw |-> "Invariant Violation", field |-> field,
                 nextType |-> next.type]
           ELSE IF next.type.kind # "OBJECT"
           THEN [threw |-> "ConfigError", field |-> field, nextType |-> next.type]
           ELSE [threw |-> "", field |-> field, nextType |-> next.type]

isFieldNodeScalarLike(field) ==
  \/ field.type.kind = "SCALAR"
  \/ (field.type.kind = "NON_NULL" /\ field.type.ofType.kind = "SCALAR")

buildArgumentNode(introInputValue) ==
  [kind |-> "Argument", name |-> introInputValue.name,
   value |-> [kind |-> "Variable", name |-> introInputValue.name]]

\* A type node; kind "throw" is the invariant of buildTypeNode failing.
RECURSIVE buildTypeNode(_)
buildTypeNode(introType) ==
  IF introType.kind = "NON_NULL"
  THEN LET type == buildTypeNode(introType.ofType)
       IN  IF type.kind \in {"ListType", "NamedType"}
           THEN [kind |-> "NonNullType", type |-> type]
           ELSE [kind |-> "throw"]
  ELSE IF introType.kind = "LIST"
  THEN LET type == buildTypeNode(introType.ofType)
       IN  IF type.kind = "throw" THEN type
           ELSE [kind |-> "ListType", type |-> type]
  ELSE IF introType.kind \in {"INPUT_OBJECT", "ENUM", "SCALAR"}
  THEN [kind |-> "NamedType", name |-> introType.name]
  ELSE [kind |-> "throw"]

buildVariableDefinitionNode(introInputValue) ==
  [kind |-> "VariableDefinition", variable |-> introInputValue.name,
   type |-> buildTypeNode(introInputValue.type)]

FieldNode(name, arguments, selectionSet) ==
  [name |-> name, arguments |-> arguments, selectionSet |-> selectionSet]

RECURSIVE makeSelectionSetFromQueryFieldSpec(_)
makeSelectionSetFromQueryFieldSpec(queryFieldSpec) ==
  IF queryFieldSpec.hasRequire
  THEN [i \in DOMAIN queryFieldSpec.require |->
          FieldNode(queryFieldSpec.require[i].field, <<>>,
                    makeSelectionSetFromQueryFieldSpec(queryFieldSpec.require[i]))]
  ELSE <<>>

makeSelectionSetFromSpec(fieldSpec) ==
  IF fieldSpec.require.hasRequire
  THEN [i \in DOMAIN fieldSpec.require.require |->
          FieldNode(fieldSpec.require.require[i].field, <<>>,
                    makeSelectionSetFromQueryFieldSpec(fieldSpec.require.require[i]))]
  ELSE <<>>

\* The concatenation of a sequence of sequences.
RECURSIVE Flatten(_)
Flatten(seqs) == IF seqs = <<>> THEN <<>> ELSE Head(seqs) \o Flatten(Tail(seqs))

\* Entries set one after another into the Map m.
RECURSIVE SetAll(_, _)
SetAll(m, entries) ==
  IF entries = <<>> THEN m
  ELSE SetAll(OrderedSet(m, Head(entries).key, Head(entries).value), Tail(entries))

COMMON_NAMES ==
  <<"id", "name", "first_name", "last_name", "title", "display_name",
    "gender", "sex">>

\* The derived mapping that keeps the Map's order: no name goes first.
implicitFieldSpecs_declared(fieldSpecsMap) ==
  [i \in DOMAIN fieldSpecsMap |->
     Entry(fieldSpecsMap[i].value.require.field, fieldSpecsMap[i].value)]

\* The fieldSpecs object of the implicit case: the common names that have a
\* spec, then the specs of the Map not seen among them.
implicitFieldSpecs(fieldSpecsMap) ==
  LET common == SelectSeq(COMMON_NAMES, LAMBDA name : OrderedHas(fieldSpecsMap, name))
      seen == {common[i] : i \in DOMAIN common}
      rest == SelectSeq(fieldSpecsMap, LAMBDA en : en.value.require.field \notin seen)
  IN  [i \in DOMAIN common |-> Entry(common[i], OrderedGet(fieldSpecsMap, common[i]))]
      \o [i \in DOMAIN rest |-> Entry(rest[i].value.require.field, rest[i].value)]

RECURSIVE buildSelectionSet(_, _, _, _)
buildSelectionSet(typesMap, type, path, fieldSpecsRequested) ==
  IF Len(path) = 0
  THEN
    LET explicit == fieldSpecsRequested.given
        scalarLike == SelectSeq(type.fields, isFieldNodeScalarLike)
        fieldSpecsMap ==
          IF explicit
          THEN SetAll(<<>>, [i \in DOMAIN fieldSpecsRequested.entries |->
                 Entry(fieldSpecsRequested.entries[i].value.require.field,
                       fieldSpecsRequested.entries[i].value)])
          ELSE SetAll(<<>>, [i \in DOMAIN scalarLike |->
                 Entry(scalarLike[i].name,
                       FieldSpec(<<"guessFieldTitle", scalarLike[i].name>>,
                                 Leaf(scalarLike[i].name)))])
        fieldSpecs ==
          IF explicit THEN fieldSpecsRequested.entries
          ELSE implicitFieldSpecs(fieldSpecsMap)
        fieldIntros ==
          IF explicit
          THEN SelectSeq(type.fields,
                 LAMBDA field : OrderedHas(fieldSpecsMap, field.name) \/ field.name = "id")
          ELSE scalarLike
        specOf(field) ==
          IF OrderedHas(fieldSpecsMap, field.name)
          THEN OrderedGet(fieldSpecsMap, field.name)
          ELSE FieldSpec("ID", Leaf("id"))
        selections ==
          [i \in DOMAIN fieldIntros |->
             FieldNode(fieldIntros[i].name,
                       [a \in DOMAIN fieldIntros[i].args |->
                          buildArgumentNode(fieldIntros[i].args[a])],
                       makeSelectionSetFromSpec(specOf(fieldIntros[i])))]
        inputValues == Flatten([i \in DOMAIN fieldIntros |-> fieldIntros[i].args])
    IN  IF \E i \in DOMAIN fieldIntros :
             /\ ~OrderedHas(fieldSpecsMap, fieldIntros[i].name)
             /\ fieldIntros[i].name # "id"
        THEN Thrown("ConfigError")
        ELSE [threw |-> "", selectionSet |-> selections, selections |-> selections,
              inputValues |-> inputValues, fieldSpecs |-> fieldSpecs,
              description |-> Null]
  ELSE
    LET fieldName == Head(path)
        restPath == Tail(path)
        resolved == resolveField(typesMap, type, fieldName)
        field == resolved.field
        args == [a \in DOMAIN field.args |-> buildArgumentNode(field.args[a])]
        inputValues == field.args
        next == buildSelectionSet(typesMap, resolved.nextType, restPath,
                                  fieldSpecsRequested)
    IN  IF resolved.threw # "" THEN Thrown(resolved.threw)
        ELSE IF next.threw # "" THEN next
        ELSE [threw |-> "",
              selectionSet |-> <<FieldNode(fieldName, args, next.selectionSet)>>,
              selections |-> next.selections,
              inputValues |-> inputValues \o next.inputValues,
              fieldSpecs |-> next.fieldSpecs,
              description |-> field.description]

\* The variable definitions that keep one definition per argument name, the
\* first one met.
variableDefinitions_unique(inputValues) ==
  LET first == SelectSeq([i \in DOMAIN inputValues |-> i],
                 LAMBDA i : \A j \in 1 .. i - 1 :
                              inputValues[j].name # inputValues[i].name)
  IN  [k \in DOMAIN first |-> buildVariableDefinitionNode(inputValues[first[k]])]

\* inputValues.map(buildVariableDefinitionNode)
variableDefinitions(inputValues) ==
  [i \in DOMAIN inputValues |-> buildVariableDefinitionNode(inputValues[i])]

NoDocument(kind) ==
  [called |-> TRUE, threw |-> kind, selectionSet |-> <<>>, columns |-> <<>>,
   variableDefinitions |-> <<>>, fieldSpecsUpdated |-> <<>>, description |-> Null]

buildQueryAST(introspectionSchema, path, fieldSpecsRequested) ==
  LET typesMap == TypesMap(introspectionSchema.types)
      rootName == introspectionSchema.queryType.name
  IN  IF rootName \notin DOMAIN typesMap THEN NoDocument("ConfigError")
      ELSE IF typesMap[rootName].kind # "OBJECT" THEN NoDocument("ConfigError")
      ELSE
        LET built == buildSelectionSet(typesMap, typesMap[rootName], path,
                                       fieldSpecsRequested)
            definitions == variableDefinitions(built.inputValues)
        IN  IF built.threw # "" THEN NoDocument(built.threw)
            ELSE IF \E i \in DOMAIN definitions : definitions[i].type.kind = "throw"
            THEN NoDocument("Invariant Violation")
            ELSE [called |-> TRUE, threw |-> "",
                  selectionSet |-> built.selectionSet,
                  columns |-> built.selections,
                  variableDefinitions |-> definitions,
                  fieldSpecsUpdated |-> built.fieldSpecs,
                  description |-> built.description]

\* The state before one call of buildQueryAST, whose arguments are chosen.
InitSynth ==
  /\ CacheInit
  /\ callerParams = BaseParams
  /\ synIn \in SynInputs
  /\ synOut = NoSynthesis

\* buildQueryAST(schema, path, fieldSpecsRequested) runs to its end.
Synthesize ==
  /\ synIn.called
  /\ ~synOut.called
  /\ synOut' = buildQueryAST(schema, synIn.path, synIn.fieldSpecsRequested)
  /\ UNCHANGED <<registry, cache, subcriptions, fetches, readers, performs,
                 lastRead, clears, stale, atClear, rejected, callerParams,
                 transport, synIn, box>>

NextSynth == Synthesize

SpecSynth == InitSynth /\ [][NextSynth]_vars

\* ------------------------------------------------------- the properties
\* The fetches reads started for key k of resource r that are not settled.
Unsettled(r, k) ==
  {f \in DOMAIN fetches : /\ fetches[f].by = "read"
                          /\ fetches[f].res = r
                          /\ fetches[f].key = k
                          /\ fetches[f].status = "pending"}

\* C1, as stated: in every reachable state, for each resource and each key,
\* at most one fetch started by a read is unsettled.
C1_AtMostOneFetchInFlight ==
  \A r \in Resources, k \in Keys : Cardinality(Unsettled(r, k)) <= 1

\* C1, amended: in every reachable state, for each resource and each key, at
\* most one unsettled fetch was started by a read after the latest clearing
\* of that resource's cache (fetches started before a clearing may still be
\* unsettled beside it).
C1_AtMostOneFreshFetchInFlight ==
  \A r \in Resources, k \in Keys : Cardinality(Unsettled(r, k) \ stale) <= 1

\* C1 witness: two fetches of one key are unsettled, one of them started
\* after the clearing, and the latest read of the key was handed that one's
\* promise without invoking fetch.
C1_Witness ==
  \E r \in Resources, k \in Keys :
    /\ Cardinality(Unsettled(r, k)) = 2
    /\ Cardinality(Unsettled(r, k) \ stale) = 1
    /\ lastRead.res = r
    /\ lastRead.key = k
    /\ lastRead.kind = "promise"
    /\ ~lastRead.fetched
    /\ lastRead.payload \in Unsettled(r, k) \ stale

\* C2: while the fetch that a read started for a key after its latest
\* clearing is unsettled, that fetch is the only one invoked for the key
\* since then and the latest read of the key was given that fetch's promise.
C2_ConcurrentReadsShareOneFetch ==
  lastRead.res # 0 =>
    \A f \in Unsettled(lastRead.res, lastRead.key) \ stale :
      /\ lastRead.kind = "promise"
      /\ lastRead.payload = f
      /\ {g \in DOMAIN fetches : /\ fetches[g].by = "read"
                                 /\ fetches[g].res = lastRead.res
                                 /\ fetches[g].key = lastRead.key} \ stale = {f}

\* C3: no read of a resource returns a value or raises an error that a
\* fetch started before a clearing of that resource's cache produced.
C3_NoResultFromBeforeInvalidation ==
  lastRead.res # 0 => ~lastRead.staleResult

\* C4: the first read, after a clearAllCaches, of a key that was completed
\* when it ran invokes fetch on a resource that is not "no-clear", and on a
\* "no-clear" resource returns the value cached then and invokes no fetch.
C4_ReadAfterInvalidation ==
  (lastRead.res # 0 /\ lastRead.prior # {}) =>
    IF IsCleared(registry[lastRead.res])
    THEN lastRead.fetched
    ELSE /\ lastRead.kind = "value"
         /\ lastRead.payload \in lastRead.prior
         /\ ~lastRead.fetched

\* C5: a step in which clearAllCaches is called leaves the cache of every
\* registered resource that is not "no-clear" without any entry, and calls
\* each listener registered on such a resource exactly once (its epoch
\* grows by one).
C5_ClearsAllAndNotifiesOnce ==
  [][clears' = clears + 1 =>
       \A r \in Resources :
         IsCleared(registry[r]) =>
           /\ DOMAIN cache'[r] = {}
           /\ \A l \in subcriptions[r] :
                readers'[l].epoch = readers[l].epoch + 1]_vars

\* C5 witness: a resource that is not "no-clear" had two keys completed when
\* clearAllCaches ran, has no entry now, and its listener was called once.
C5_Witness ==
  \E r \in Resources :
    /\ IsCleared(registry[r])
    /\ Cardinality({x \in atClear : x[1] = r}) = 2
    /\ DOMAIN cache[r] = {}
    /\ clears = 1
    /\ \E l \in subcriptions[r] : readers[l].epoch = 2

\* C6: once the promise of a perform call is resolved, no value that was
\* completed in the cache of a resource that is not "no-clear" when the
\* mutation succeeded is still in that cache.
C6_InvalidatedBeforeResolve ==
  \A i \in DOMAIN performs :
    performs[i].promise = "resolved" =>
      performs[i].snap \cap Completed(cache) = {}

\* C6 witness: a perform call is resolved and a value was completed before.
C6_Witness ==
  \E i \in DOMAIN performs :
    /\ performs[i].promise = "resolved"
    /\ performs[i].snap # {}

\* C7: a step in which the fetch of a perform call rejects changes no cache
\* and calls no listener, and the promise of perform is rejected with the
\* rejection of the fetch.
C7_FailedMutationInvalidatesNothing ==
  [][\A i \in DOMAIN performs :
       (performs[i].promise = "pending" /\ performs'[i].promise # "pending") =>
         \/ performs'[i].promise = "resolved"
         \/ /\ performs'[i].promise = "rejected"
            /\ performs'[i].result = performs[i].fetch
            /\ cache' = cache
            /\ readers' = readers
            /\ clears' = clears]_vars

\* C7 witness: a perform call was rejected while a value is completed in a
\* cache and a listener is registered.
C7_Witness ==
  \E i \in DOMAIN performs :
    /\ performs[i].promise = "rejected"
    /\ performs[i].result = performs[i].fetch
    /\ Completed(cache) # {}
    /\ \E r \in Resources : subcriptions[r] # {}

\* C8: a step in which perform is called invokes the fetch of the mutation
\* exactly once, whatever performs came before, and leaves every cache, the
\* mutation's own included, as it was; and a step in which a perform call
\* settles finds no entry in the mutation's own cache and leaves none.
C8_PerformAlwaysFetches ==
  [][/\ Len(performs') = Len(performs) + 1 =>
          LET p == performs'[Len(performs')]
          IN  /\ Len(fetches') = Len(fetches) + 1
              /\ fetches'[Len(fetches')] =
                   [res |-> p.mutation, key |-> p.key,
                    by |-> "perform", status |-> "pending"]
              /\ p.fetch = Len(fetches')
              /\ cache' = cache
     /\ \A i \in DOMAIN performs :
          performs'[i].promise # performs[i].promise =>
            /\ DOMAIN cache[performs[i].mutation] = {}
            /\ DOMAIN cache'[performs[i].mutation] = {}]_vars

\* C8 witness: two performs of one mutation with the same key, the first
\* one settled before the second was called, each with a fetch of its own.
C8_Witness ==
  /\ Len(performs) = 2
  /\ performs[1].mutation = performs[2].mutation
  /\ performs[1].key = performs[2].key
  /\ performs[1].promise # "pending"
  /\ performs[2].promise = "pending"
  /\ performs[1].fetch # performs[2].fetch
  /\ DOMAIN cache[performs[1].mutation] = {}

\* C9: a read of a key whose fetch rejected, with no clearing of the cache
\* since, raises that rejection and invokes no fetch.
C9_ErrorKeptUntilInvalidation ==
  lastRead.res # 0 =>
    \A e \in lastRead.expect :
      /\ lastRead.kind = "error"
      /\ lastRead.payload = e
      /\ ~lastRead.fetched

\* C10: a read of a key whose state is completed returns the value of that
\* state, invokes no fetch and leaves the cache as it was.
C10_CompletedReadIsPure ==
  (lastRead.res # 0 /\ lastRead.was.type = "completed") =>
    /\ lastRead.kind = "value"
    /\ lastRead.payload = lastRead.was.value
    /\ ~lastRead.fetched
    /\ lastRead.cacheKept

\* C10 witness: the latest read found its key completed.
C10_Witness ==
  /\ lastRead.res # 0
  /\ lastRead.was.type = "completed"
  /\ lastRead.kind = "value"
  /\ StateOf(cache[lastRead.res], lastRead.key) = lastRead.was

\* The properties a key was serialized from, read back from its text.
ParsedProps(key) ==
  {<<key[3 + 6 * j], key[6 + 6 * j]>> : j \in 0 .. ((Len(key) - 1) \div 6) - 1}

\* The fetch an in-progress or completed state holds or came from.
FetchOf(state) == IF state.type = "in-progress" THEN state.promise ELSE state.value

\* C11: a read starts no fetch while the cache of its resource holds, since
\* before the read and with no clearing in between, an in-progress or
\* completed entry for params with the same properties in another order.
C11_OrderStableKey ==
  (lastRead.res # 0 /\ lastRead.fetched) =>
    ~ \E k \in DOMAIN cache[lastRead.res] :
        /\ k # lastRead.key
        /\ ParsedProps(k) = ParsedProps(lastRead.key)
        /\ cache[lastRead.res][k].type \in {"in-progress", "completed"}
        /\ FetchOf(cache[lastRead.res][k]) < lastRead.payload
        /\ FetchOf(cache[lastRead.res][k]) \notin stale

\* C20: every change of the state of a key of a resource is init to
\* in-progress by a read that starts a fetch, in-progress to completed or
\* error by the settlement of the fetch in progress, or any state to init by
\* a call of clearAllCaches.
C20_StateMachine ==
  [][\A r \in DOMAIN cache, k \in Keys :
       LET a == StateOf(cache[r], k)
           b == StateOf(cache'[r], k)
       IN  a # b =>
             \/ /\ a.type = "init"
                /\ b.type = "in-progress"
                /\ Len(fetches') = Len(fetches) + 1
                /\ b.promise = Len(fetches')
             \/ /\ a.type = "in-progress"
                /\ b.type \in {"completed", "error"}
                /\ fetches[a.promise].status = "pending"
                /\ fetches'[a.promise].status = "settled"
                /\ (IF b.type = "completed" THEN b.value ELSE b.error) = a.promise
             \/ /\ b.type = "init"
                /\ clears' = clears + 1]_vars

\* C12: a step in which fetchGraphQL answers a fetch of a query resource
\* with a non-empty errors list rejects the fetch with an error whose message
\* holds the query text and the reported messages, in their order, joined by
\* line breaks, and leaves the key of that fetch in the error state with that
\* error; a read that finds the key in that state raises that error and starts
\* no fetch.
C12_ReportedErrorsFailTheFetch ==
  [][/\ (/\ lastRead'.res # 0
         /\ transport'.fetch # 0
         /\ Len(transport'.resp.errors) > 0
         /\ lastRead'.res = transport'.res
         /\ lastRead'.key = transport'.key
         /\ lastRead'.was = [type |-> "error", error |-> transport'.fetch]) =>
          /\ lastRead'.kind = "error"
          /\ lastRead'.payload = transport'.fetch
          /\ ~lastRead'.fetched
     /\ (transport' # transport
         /\ ~transport'.resp.failed
         /\ transport'.resp.errorsGiven
         /\ Len(transport'.resp.errors) > 0) =>
          LET t == transport'
              msg == t.out.message
              n == Len(t.resp.errors)
          IN  /\ ~t.out.ok
              /\ \E i \in DOMAIN msg : msg[i] = registry[t.res].query
              /\ \E start \in DOMAIN msg :
                   /\ start + 2 * (n - 1) \in DOMAIN msg
                   /\ \A j \in 1 .. n :
                        /\ msg[start + 2 * (j - 1)] = t.resp.errors[j]
                        /\ j < n => msg[start + 2 * j - 1] = "\n"
              /\ StateOf(cache'[t.res], t.key) =
                   [type |-> "error", error |-> t.fetch]]_vars

\* C12 witness: fetchGraphQL answered with data and two errors, and the read
\* of the key after that raised the error of the fetch.
C12_Witness ==
  /\ transport.fetch # 0
  /\ transport.resp.data # Null
  /\ Len(transport.resp.errors) = 2
  /\ transport.resp.errors[1] # transport.resp.errors[2]
  /\ lastRead.res = transport.res
  /\ lastRead.key = transport.key
  /\ lastRead.kind = "error"
  /\ lastRead.payload = transport.fetch
  /\ lastRead.was = [type |-> "error", error |-> transport.fetch]

\* ------------------------------------------- properties of the synthesizer
\* The schema read on its own: the type of a name, the field of a name, the
\* named type under the wrappers of a reference, and the walk of a path from
\* a type for as long as the hops are fields of object type.
TypeNamed(name) ==
  schema.types[CHOOSE i \in DOMAIN schema.types : schema.types[i].name = name]
HasField(type, name) == \E i \in DOMAIN type.fields : type.fields[i].name = name
FieldOf(type, name) ==
  type.fields[CHOOSE i \in DOMAIN type.fields : type.fields[i].name = name]
RECURSIVE NamedRef(_)
NamedRef(typeRef) ==
  IF typeRef.kind \in {"NON_NULL", "LIST"} THEN NamedRef(typeRef.ofType) ELSE typeRef
RECURSIVE Walk(_, _)
Walk(type, path) ==
  IF path = <<>> THEN [ok |-> TRUE, type |-> type]
  ELSE IF ~HasField(type, Head(path)) THEN [ok |-> FALSE, type |-> type]
  ELSE IF NamedRef(FieldOf(type, Head(path)).type).kind # "OBJECT"
  THEN [ok |-> FALSE, type |-> type]
  ELSE Walk(TypeNamed(NamedRef(FieldOf(type, Head(path)).type).name), Tail(path))
Root == TypeNamed("Query")
Target == Walk(Root, synIn.path).type
Produced == synOut.called /\ synOut.threw = ""

\* C13: a synthesis whose path has a hop that is no field of the type it is
\* taken at, or a field whose type under NON_NULL and LIST is not an OBJECT,
\* ends with a ConfigError.
C13_BadHopIsConfigError ==
  (synOut.called /\ ~Walk(Root, synIn.path).ok) => synOut.threw = "ConfigError"

\* C14: a synthesis with a field configuration one of whose specs requires a
\* field the target type of the path does not have ends with a ConfigError.
C14_AbsentRequestedFieldIsConfigError ==
  (/\ synOut.called
   /\ Walk(Root, synIn.path).ok
   /\ synIn.fieldSpecsRequested.given
   /\ \E i \in DOMAIN synIn.fieldSpecsRequested.entries :
        ~HasField(Target, synIn.fieldSpecsRequested.entries[i].value.require.field))
    => synOut.threw = "ConfigError"

\* C15: the description synthesis returns is the description of the field of
\* the last hop of the path, and null when the path is empty.
C15_DescriptionOfLastHop ==
  Produced =>
    synOut.description =
      IF synIn.path = <<>> THEN Null
      ELSE FieldOf(Walk(Root, SubSeq(synIn.path, 1, Len(synIn.path) - 1)).type,
                   synIn.path[Len(synIn.path)]).description

\* The arguments of the hops of the path in path order, then those of the
\* fields the document selects at the target in the order it selects them.
ArgumentsMet ==
  Flatten([i \in DOMAIN synIn.path |->
             FieldOf(Walk(Root, SubSeq(synIn.path, 1, i - 1)).type,
                     synIn.path[i]).args])
  \o Flatten([i \in DOMAIN synOut.columns |->
                FieldOf(Target, synOut.columns[i].name).args])

\* C16: the variable definitions of a synthesized document are, one for one
\* and in order, the arguments of the hops in path order followed by the
\* arguments of the selected target fields in selection order; arguments of
\* one name each keep their definition.
C16_OneDefinitionPerArgument ==
  Produced =>
    /\ Len(synOut.variableDefinitions) = Len(ArgumentsMet)
    /\ \A i \in DOMAIN synOut.variableDefinitions :
         /\ synOut.variableDefinitions[i].variable = ArgumentsMet[i].name
         /\ (synOut.variableDefinitions[i].type.kind = "NonNullType")
              <=> (ArgumentsMet[i].type.kind = "NON_NULL")
         /\ (synOut.variableDefinitions[i].type.kind = "ListType")
              <=> (ArgumentsMet[i].type.kind = "LIST")

\* C16 witness: the path patients, edges, node with no configuration gives
\* the definitions search and limit of the hops, then search and limit of
\* the selected display_name.
C16_Witness ==
  /\ Produced
  /\ synIn.path = <<"patients", "edges", "node">>
  /\ [i \in DOMAIN synOut.variableDefinitions |->
        synOut.variableDefinitions[i].variable]
       = <<"search", "limit", "search", "limit">>

\* The place of a field name in the order of the derived mapping: the common
\* names in their fixed order, then the fields in declaration order.
PriorityOrder ==
  <<"id", "name", "first_name", "last_name", "title", "display_name",
    "gender", "sex">>
Rank(type, name) ==
  IF \E i \in DOMAIN PriorityOrder : PriorityOrder[i] = name
  THEN CHOOSE i \in DOMAIN PriorityOrder : PriorityOrder[i] = name
  ELSE Len(PriorityOrder)
       + (CHOOSE i \in DOMAIN type.fields : type.fields[i].name = name)

\* C17: with no field configuration, the mapping synthesis returns has one
\* entry for each field of the target type that is a SCALAR or a NON_NULL of
\* a SCALAR and no other, the common names first in their fixed order and
\* the rest after them in declaration order.
C17_ImplicitFieldSpecsOrder ==
  (Produced /\ ~synIn.fieldSpecsRequested.given) =>
    LET specs == synOut.fieldSpecsUpdated
    IN  /\ {specs[i].key : i \in DOMAIN specs} =
             {Target.fields[i].name : i \in
                {j \in DOMAIN Target.fields :
                   \/ Target.fields[j].type.kind = "SCALAR"
                   \/ /\ Target.fields[j].type.kind = "NON_NULL"
                      /\ Target.fields[j].type.ofType.kind = "SCALAR"}}
        /\ \A i \in DOMAIN specs : specs[i].value.require.field = specs[i].key
        /\ \A i, j \in DOMAIN specs :
             i < j => Rank(Target, specs[i].key) < Rank(Target, specs[j].key)

\* C17 witness: on Patient, declared as email, id, display_name, age and
\* fields that are not scalar-like, the mapping is id, display_name, email,
\* age.
C17_Witness ==
  /\ Produced
  /\ ~synIn.fieldSpecsRequested.given
  /\ Target.name = "Patient"
  /\ [i \in DOMAIN synOut.fieldSpecsUpdated |-> synOut.fieldSpecsUpdated[i].key]
       = <<"id", "display_name", "email", "age">>

\* C18: with a field configuration that does not ask for id, on a target
\* type that has the field id, the mapping synthesis returns has an entry
\* for id and the document selects id.
C18_IdSpecMerged ==
  (/\ Produced
   /\ synIn.fieldSpecsRequested.given
   /\ \A i \in DOMAIN synIn.fieldSpecsRequested.entries :
        synIn.fieldSpecsRequested.entries[i].value.require.field # "id"
   /\ HasField(Target, "id"))
    => /\ \E i \in DOMAIN synOut.fieldSpecsUpdated :
            synOut.fieldSpecsUpdated[i].value.require.field = "id"
       /\ \E i \in DOMAIN synOut.columns : synOut.columns[i].name = "id"

\* Every field node of the selection set names a field of the type it is
\* selected at, and so do the nodes of its own selection set at the type of
\* that field.
RECURSIVE SelectsOnlyFields(_, _)
SelectsOnlyFields(type, selectionSet) ==
  \A i \in DOMAIN selectionSet :
    /\ HasField(type, selectionSet[i].name)
    /\ selectionSet[i].selectionSet # <<>> =>
         LET ref == NamedRef(FieldOf(type, selectionSet[i].name).type)
         IN  /\ \E t \in DOMAIN schema.types : schema.types[t].name = ref.name
             /\ SelectsOnlyFields(TypeNamed(ref.name), selectionSet[i].selectionSet)

\* C19: every field of a synthesized document, at any depth, is a field of
\* the type it is selected at.
C19_DocumentSelectsOnlyFields ==
  Produced => SelectsOnlyFields(Root, synOut.selectionSet)

C22_InvalidationIsOneStep ==
  [][clears' # clears =>
       /\ lastRead' = lastRead
       /\ Len(fetches') = Len(fetches)
       /\ subcriptions' = subcriptions
       /\ \A r \in Resources :
            cache'[r] = IF IsCleared(registry[r]) THEN EmptyMap ELSE cache[r]
       /\ \A l \in Readers :
            readers'[l] =
              IF \E r \in Resources : IsCleared(registry[r]) /\ l \in subcriptions[r]
              THEN [readers[l] EXCEPT !.epoch = @ + 1]
              ELSE readers[l]]_vars

\* C22 witness: one call of clearAllCaches found two resources that are not
\* "no-clear", each with a completed entry and a subscribed reader; both
\* caches are empty and both listeners were called.
C22_Witness ==
  /\ clears = 1
  /\ Len(registry) = 2
  /\ \A r \in Resources : IsCleared(registry[r]) /\ cache[r] = EmptyMap
  /\ \A r \in Resources : \E x \in atClear : x[1] = r
  /\ \A r \in Resources :
       \E l \in subcriptions[r] : readers[l].res = r /\ readers[l].epoch = 2
  /\ lastRead.res # 0

\* A reader that has rendered with the data of a resource and has not
\* unmounted is reading that resource.
IsReading(reader) == reader.pos \in {"rendered", "subscribed"}

\* C23: a reader that is reading a resource is in the subscription set of
\* that resource from its read on, it is taken out of the set when it stops
\* reading, and a call of clearAllCaches calls the listener of every reader
\* that is reading a resource that is not "no-clear".
C23_ActiveReadersAreSubscribed ==
  [][/\ \A l \in Readers :
          IsReading(readers'[l]) => l \in subcriptions'[readers'[l].res]
     /\ \A l \in Readers :
          (IsReading(readers[l]) /\ ~IsReading(readers'[l])) =>
            l \notin subcriptions'[readers[l].res]
     /\ clears' # clears =>
          \A l \in Readers :
            (IsReading(readers[l]) /\ IsCleared(registry[readers[l].res])) =>
              readers'[l].epoch = readers[l].epoch + 1]_vars

\* C24: a read with unstable_useResourceLocally by a reader whose box holds
\* data for the key of the read returns that data, starts no fetch and leaves
\* the cache as it was, whatever the cache holds for the key; another read
\* goes through the cache; and the box of a reader changes only to the value
\* and key of a read of that reader that went through the cache, or to the
\* sentinel when the reader unmounts.
C24_BoxedDataIsKept ==
  [][/\ (/\ lastRead'.res # 0
         /\ lastRead'.box.full
         /\ lastRead'.box.key = lastRead'.key) =>
          /\ lastRead'.kind = "value"
          /\ lastRead'.payload = lastRead'.box.data
          /\ ~lastRead'.fetched
          /\ lastRead'.cacheKept
     /\ (/\ lastRead'.res # 0
         /\ (~lastRead'.box.full \/ lastRead'.box.key # lastRead'.key)) =>
          /\ lastRead'.fetched <=> lastRead'.was.type = "init"
          /\ lastRead'.was.type = "completed" =>
               lastRead'.kind = "value" /\ lastRead'.payload = lastRead'.was.value
     /\ \A l \in Readers :
          box'[l] # box[l] =>
            \/ readers'[l].pos = "none" /\ box'[l] = noValueSentinel
            \/ /\ lastRead'.res # 0
               /\ lastRead'.reader = l
               /\ lastRead'.box = box[l]
               /\ (~box[l].full \/ box[l].key # lastRead'.key)
               /\ lastRead'.kind = "value"
               /\ box'[l] = [full |-> TRUE, data |-> lastRead'.payload,
                             key |-> lastRead'.key]]_vars

\* C24 witness: after a call of clearAllCaches emptied the cache of the
\* resource, a reader whose box held data for the key read the key again and
\* got the data of the box, with no entry in the cache and no fetch.
C24_Witness ==
  /\ lastRead.res # 0
  /\ clears >= 1
  /\ IsCleared(registry[lastRead.res])
  /\ lastRead.box.full
  /\ lastRead.box.key = lastRead.key
  /\ lastRead.was.type = "init"
  /\ lastRead.kind = "value"
  /\ lastRead.payload = lastRead.box.data
  /\ box[lastRead.reader] = lastRead.box
  /\ readers[lastRead.reader].epoch = 2
  /\ cache[lastRead.res] = EmptyMap

=============================================================================
